---------------------------- MODULE Spec2Model ----------------------------
(***************************************************************************)
(* TikTok Angrybird (src/main.py): the scrape-extract-dedup-persist        *)
(* pipeline of TikTokScraperApp.                                           *)
(*                                                                         *)
(* The GUI main loop runs start_scraping / stop_scraping (and the clicks on *)
(* the filter checkbox); every start_scraping that                         *)
(* passes the empty-cookie test spawns one thread that runs run_scraper.   *)
(* The threads share stop_flag, check_variable, the log box and the output  *)
(* file; everything else of run_scraper that is modelled is                *)
(* local to its thread.  A step of a thread is a stretch of run_scraper    *)
(* between two accesses to what is shared.                                 *)
(*                                                                         *)
(* A text (str) is a sequence of one-character strings, so that split,     *)
(* strip and the keyword test are computed as Python computes them.        *)
(***************************************************************************)
EXTENDS Naturals, Sequences, FiniteSets

(***************************************************************************)
(* Bounds of the model.                                                    *)
(***************************************************************************)
\* start_scraping calls that spawn a thread (run_scraper runs) in one process
MaxRuns == 2
\* polling cycles begun, over all the runs of the process
MaxCycles == 2
\* length of a credential text (SpecParse)
MaxCookieLen == 4
\* length of each of the eight element lists of a capture (SpecExtract)
MaxItems == 1

(***************************************************************************)
(* Texts.                                                                  *)
(***************************************************************************)
\* the separator of the upload-date text, U+00B7
MIDDLE_DOT == "·"

\* the sentinel of a field whose list is too short
NA == <<"N", "/", "A">>

Whitespace == {" "}

RECURSIVE LStrip(_)
LStrip(s) ==
    IF s # <<>> /\ Head(s) \in Whitespace THEN LStrip(Tail(s)) ELSE s

RECURSIVE RStrip(_)
RStrip(s) ==
    IF s # <<>> /\ s[Len(s)] \in Whitespace
    THEN RStrip(SubSeq(s, 1, Len(s) - 1))
    ELSE s

\* str.strip(): leading and trailing whitespace removed
Strip(s) == RStrip(LStrip(s))

\* str.split(sep), sep one character: the segments between the separators,
\* empty segments kept, never fewer than one segment
RECURSIVE SplitFrom(_, _, _)
SplitFrom(s, sep, cur) ==
    IF s = <<>> THEN <<cur>>
    ELSE IF Head(s) = sep THEN <<cur>> \o SplitFrom(Tail(s), sep, <<>>)
    ELSE SplitFrom(Tail(s), sep, Append(cur, Head(s)))

Split(s, sep) == SplitFrom(s, sep, <<>>)

\* kw in s : kw is a contiguous part of s (case-sensitive)
Contains(s, kw) ==
    \E i \in 0..Len(s) :
        /\ i + Len(kw) <= Len(s)
        /\ SubSeq(s, i + 1, i + Len(kw)) = kw

(***************************************************************************)
(* Class constants and pure parts of run_scraper.                          *)
(***************************************************************************)
\* DROPSHIPPING_KEYWORDS, in the order of the source
DROPSHIPPING_KEYWORDS ==
    <<
       <<"s", "h", "o", "p">>,
       <<"l", "i", "n", "k", " ", "i", "n", " ", "b", "i", "o">>,
       <<"s", "t", "o", "c", "k">>,
       <<"s", "a", "l", "e">>,
       <<"d", "i", "s", "c", "o", "u", "n", "t">>,
       <<"o", "r", "d", "e", "r">>,
       <<"s", "t", "o", "r", "e">>,
       <<"r", "e", "t", "a", "i", "l">>,
       <<"a", "d", "d", " ", "t", "o", " ", "c", "a", "r", "t">>,
       <<"c", "h", "e", "c", "k", "o", "u", "t">>,
       <<"s", "h", "i", "p", "p", "i", "n", "g">>,
       <<"o", "f", "f", "e", "r">>,
       <<"g", "u", "a", "r", "a", "n", "t", "e", "e", "d">>,
       <<"c", "a", "s", "h">>,
       <<"g", "e", "t", " ", "y", "o", "u", "r", "s">>,
       <<"l", "i", "m", "i", "t", "e", "d", " ", "e", "d", "i", "t", "i", "o", "n">>,
       <<"d", "e", "a", "l">>,
       <<"b", "u", "y">>,
       <<"p", "r", "i", "c", "e">>,
       <<"p", "r", "o", "f", "i", "t">>,
       <<"g", "i", "f", "t">>
    >>

\* any(keyword in description for keyword in self.DROPSHIPPING_KEYWORDS)
AnyKeyword(description) ==
    \E k \in 1..Len(DROPSHIPPING_KEYWORDS) :
        Contains(description, DROPSHIPPING_KEYWORDS[k])

\* one entry of the cookie list built from one ';'-separated segment
CookieEntry(parts) ==
    [name |-> Strip(parts[1]), value |-> Strip(parts[2]),
     domain |-> ".tiktok.com", path |-> "/", httpOnly |-> TRUE, secure |-> TRUE]

\* the list comprehension of run_scraper over cookie.split(';'): subscript [1]
\* of a segment's split('=') raises IndexError when the segment has no '=',
\* and the comprehension then yields no list
RECURSIVE CookieList(_)
CookieList(segs) ==
    IF segs = <<>> THEN [raised |-> FALSE, cookies |-> <<>>]
    ELSE LET parts == Split(Head(segs), "=")
             rest  == CookieList(Tail(segs))
         IN  IF Len(parts) < 2 \/ rest.raised
             THEN [raised |-> TRUE, cookies |-> <<>>]
             ELSE [raised |-> FALSE,
                   cookies |-> <<CookieEntry(parts)>> \o rest.cookies]

ParseCookie(cookie) == CookieList(Split(cookie, ";"))

\* a field read whose range test is one short: the last element of a list
\* reads as "N/A"
FieldOrNA_OffByOne(elements, i) == IF i < Len(elements) THEN elements[i] ELSE NA

\* elements[i].inner_text() if i < len(elements) else "N/A"; i counts from 1
FieldOrNA(elements, i) == IF i <= Len(elements) THEN elements[i] ELSE NA

\* video_data[username] = data on a dict kept as the sequence of its values in
\* insertion order: an existing key keeps its place and takes the new value
DictPut(d, data) ==
    IF \E j \in 1..Len(d) : d[j].username = data.username
    THEN [j \in 1..Len(d) |->
             IF d[j].username = data.username THEN data ELSE d[j]]
    ELSE Append(d, data)

\* the body of "for i in range(len(username_elements))" for one i, on the
\* result so far; the date of an item that passes the filter raises IndexError
\* when its list is long enough and its text has no middle dot
ExtractItem(cap, check, i, acc) ==
    LET description == FieldOrNA(cap.description, i)
        dateparts   == Split(cap.upload_date[i], MIDDLE_DOT)
    IN  IF check # 0 /\ ~AnyKeyword(description) THEN acc
        ELSE IF i <= Len(cap.upload_date) /\ Len(dateparts) < 2
        THEN [acc EXCEPT !.raised = TRUE]
        ELSE [acc EXCEPT !.video_data = DictPut(@,
                 [username    |-> cap.username[i],
                  likes       |-> FieldOrNA(cap.likes, i),
                  comments    |-> FieldOrNA(cap.comments, i),
                  favorites   |-> FieldOrNA(cap.favorites, i),
                  shares      |-> FieldOrNA(cap.shares, i),
                  upload_date |-> IF i <= Len(cap.upload_date)
                                  THEN Strip(dateparts[2]) ELSE NA,
                  description |-> description,
                  music_text  |-> FieldOrNA(cap.music_text, i)])]

RECURSIVE ExtractFrom(_, _, _, _)
ExtractFrom(cap, check, i, acc) ==
    IF i > Len(cap.username) \/ acc.raised THEN acc
    ELSE ExtractFrom(cap, check, i + 1, ExtractItem(cap, check, i, acc))

\* an extraction that stops at the item that raises and keeps the records
\* built before it
Extract_KeepsPartial(cap, check) ==
    [ExtractFrom(cap, check, 1, [raised |-> FALSE, video_data |-> <<>>])
        EXCEPT !.raised = FALSE]

\* an extraction that applies no filter, whatever the setting
Extract_Unfiltered(cap, check) ==
    ExtractFrom(cap, 0, 1, [raised |-> FALSE, video_data |-> <<>>])

\* lines 217-240: the cycle's video_data, or the exception that ends the loop
Extract(cap, check) ==
    ExtractFrom(cap, check, 1, [raised |-> FALSE, video_data |-> <<>>])

\* the row of video_records built from one VideoData
Row(data) ==
    [Uploader |-> data.username, UploadDate |-> data.upload_date,
     Description |-> data.description, Likes |-> data.likes,
     Comments |-> data.comments, Favorites |-> data.favorites,
     Shares |-> data.shares, MusicText |-> data.music_text]

(***************************************************************************)
(* Inputs of the model.                                                    *)
(***************************************************************************)
Threads == 1..MaxRuns

U1 == <<"u", "1">>
U2 == <<"u", "2">>
\* a description with the keyword "shop", and one that differs from it in case
SHOP == <<"s", "h", "o", "p">>
NOKW == <<"S", "h", "o", "p">>
\* a date text "x· 1" (second segment " 1") and one with no middle dot
DATE == <<"x", MIDDLE_DOT, " ", "1">>
NODOT == <<"x", " ", "1">>
L10 == <<"1", "0">>
L20 == <<"2", "0">>

\* what the eight query_selector_all calls of a cycle return (the texts of the
\* elements, in document order)
Cap(us, ds, dts, ls) ==
    [username |-> us, likes |-> ls, comments |-> <<<<"3">>>>, favorites |-> <<>>,
     shares |-> <<<<"5">>, <<"6">>>>, upload_date |-> dts, description |-> ds,
     music_text |-> <<<<"m">>>>]

EmptyCapture ==
    [username |-> <<>>, likes |-> <<>>, comments |-> <<>>, favorites |-> <<>>,
     shares |-> <<>>, upload_date |-> <<>>, description |-> <<>>,
     music_text |-> <<>>]

\* the captures the feed shows in Spec: nothing; two new items, the likes list
\* one short; the first description without a keyword, other likes; the same
\* uploader twice; a second date with no middle dot
Feed ==
    { EmptyCapture,
      Cap(<<U1, U2>>, <<SHOP, SHOP>>, <<DATE, DATE>>, <<L10>>),
      Cap(<<U1, U2>>, <<NOKW, SHOP>>, <<DATE, DATE>>, <<L20, L10>>),
      Cap(<<U2, U2>>, <<SHOP, SHOP>>, <<DATE, DATE>>, <<L10, L20>>),
      Cap(<<U1, U2>>, <<SHOP, SHOP>>, <<DATE, NODOT>>, <<L10>>) }

\* what self.cookie_entry.get("1.0", "end") returns in Spec: the box holds what
\* the operator typed last, which the program never writes
CookieTexts ==
    { <<>>, <<" ">>, <<" ", "k", "=", "v">>, <<"k">> }

(***************************************************************************)
(* State.                                                                  *)
(***************************************************************************)
VARIABLES
    stop_flag,                \* self.stop_flag
    start_button,             \* state of self.start_button
    stop_button,              \* state of self.stop_button
    check_variable,           \* self.check_variable (IntVar)
    log_output,               \* self.log_output: the entries at its end, those
                              \* of the latest step that called log_message
    scraper_thread,           \* self.scraper_thread: 0 (None) or the last thread
    xlsx,                     \* the rows of OUTPUT_FILE
    pc,                       \* per thread: where it is in run_scraper
    cookie,                   \* per thread: the argument of run_scraper
    cookies,                  \* per thread: the cookie list
    browser,                  \* per thread: "none", "open", "closed"
    video_records,            \* per thread: video_records
    detected_usernames,       \* per thread: detected_usernames
    check,                    \* per thread: check
    elements,                 \* per thread: the eight *_elements lists
    video_data,               \* per thread: video_data
    new_usernames,            \* per thread: new_usernames
    cycles,                   \* cycles begun so far (bounded by MaxCycles)
    stop_requested            \* history: the live threads that were alive at a
                              \* stop_scraping call

gui == <<stop_flag, start_button, stop_button, check_variable, scraper_thread>>
run_locals == <<cookie, cookies, browser, video_records, detected_usernames,
                check>>
cycle_locals == <<elements, video_data, new_usernames>>
locals == <<run_locals, cycle_locals>>
locals_but_browser == <<cookie, cookies, video_records, detected_usernames,
                        check, cycle_locals>>
vars == <<gui, locals, pc, log_output, xlsx, cycles, stop_requested>>

\* a thread that was spawned and has not left run_scraper
Alive(t) == pc[t] \notin {"unborn", "stopped", "failed", "crashed"}
\* a thread inside the while loop of run_scraper
InLoop(t) == pc[t] \in {"loop", "capture", "extract", "dedup", "save", "pace"}
\* a thread in the body of the loop: a cycle is in flight
InCycle(t) == pc[t] \in {"capture", "extract", "dedup", "save", "pace"}

\* one entry of the log box: "[level] message" with the texts it quotes
Entry(level, message, args) ==
    [level |-> level, message |-> message, args |-> args]

\* log_message(message, level) as the step's only call: the program inserts at
\* the end of the box and never reads it, and log_output keeps the end of the
\* box, the entries of the latest step that logged
Logged(log, level, message, args) == <<Entry(level, message, args)>>

Init ==
    /\ stop_flag = FALSE
    /\ start_button = "normal"
    /\ stop_button = "disabled"
    /\ check_variable = 1
    /\ log_output = <<>>
    /\ scraper_thread = 0
    /\ xlsx = <<>>
    /\ pc = [t \in Threads |-> "unborn"]
    /\ cookie = [t \in Threads |-> <<>>]
    /\ cookies = [t \in Threads |-> <<>>]
    /\ browser = [t \in Threads |-> "none"]
    /\ video_records = [t \in Threads |-> <<>>]
    /\ detected_usernames = [t \in Threads |-> {}]
    /\ check = [t \in Threads |-> 0]
    /\ elements = [t \in Threads |-> EmptyCapture]
    /\ video_data = [t \in Threads |-> <<>>]
    /\ new_usernames = [t \in Threads |-> {}]
    /\ cycles = 0
    /\ stop_requested = {}

(***************************************************************************)
(* The control surface (GUI main loop).                                    *)
(***************************************************************************)
\* a click on the checkbox that also reaches the setting of the runs that are
\* in their polling loop, as if they read check_variable in every cycle
ToggleCheck_Live ==
    /\ check_variable' = 1 - check_variable
    /\ check' = [t \in Threads |-> IF InLoop(t) THEN check_variable' ELSE check[t]]
    /\ UNCHANGED <<stop_flag, start_button, stop_button, scraper_thread,
                   cookie, cookies, browser, video_records, detected_usernames,
                   cycle_locals, pc, log_output, xlsx, cycles, stop_requested>>

\* the operator clicks the filter checkbox (onvalue 1, offvalue 0)
ToggleCheck ==
    /\ check_variable' = 1 - check_variable
    /\ UNCHANGED <<stop_flag, start_button, stop_button, scraper_thread,
                   locals, pc, log_output, xlsx, cycles, stop_requested>>

\* a refusal that returns only after the flag is cleared
StartRefused_ClearsFlag(text) ==
    /\ start_button = "normal"
    /\ Strip(text) = <<>>
    /\ log_output' = Logged(log_output, "ERROR", "Cookie cannot be empty", <<>>)
    /\ stop_flag' = FALSE
    /\ UNCHANGED <<start_button, stop_button, check_variable, scraper_thread,
                   locals, pc, xlsx, cycles, stop_requested>>

\* start_scraping on the text the cookie box holds when it is called, with an
\* empty cookie: the error and the return
StartRefused(text) ==
    /\ start_button = "normal"
    /\ Strip(text) = <<>>
    /\ log_output' = Logged(log_output, "ERROR", "Cookie cannot be empty", <<>>)
    /\ UNCHANGED <<gui, locals, pc, xlsx, cycles, stop_requested>>

\* start_scraping with a cookie: the flag, the buttons and the new thread,
\* which is at the first line of run_scraper
StartSpawn(text) ==
    /\ start_button = "normal"
    /\ Strip(text) # <<>>
    /\ scraper_thread < MaxRuns
    /\ log_output' = Logged(log_output, "INFO", "Starting TikTok scraping...", <<>>)
    /\ stop_flag' = FALSE
    /\ start_button' = "disabled"
    /\ stop_button' = "normal"
    /\ scraper_thread' = scraper_thread + 1
    /\ pc' = [pc EXCEPT ![scraper_thread + 1] = "parse"]
    /\ cookie' = [cookie EXCEPT ![scraper_thread + 1] = Strip(text)]
    /\ UNCHANGED <<check_variable, cookies, browser, video_records,
                   detected_usernames, check, cycle_locals, xlsx, cycles,
                   stop_requested>>

start_scraping(text) == StartRefused(text) \/ StartSpawn(text)

stop_scraping ==
    /\ stop_button = "normal"
    /\ log_output' = Logged(log_output, "INFO", "Stopping TikTok scraping...", <<>>)
    /\ stop_flag' = TRUE
    /\ start_button' = "normal"
    /\ stop_button' = "disabled"
    /\ stop_requested' = stop_requested \cup {t \in Threads : Alive(t)}
    /\ UNCHANGED <<check_variable, scraper_thread, locals, pc, xlsx, cycles>>

(***************************************************************************)
(* run_scraper, one thread.                                                *)
(***************************************************************************)
\* run_scraper returns or is left by an exception: the thread ends and its
\* locals are gone
Return(t) ==
    /\ cookie' = [cookie EXCEPT ![t] = <<>>]
    /\ cookies' = [cookies EXCEPT ![t] = <<>>]
    /\ video_records' = [video_records EXCEPT ![t] = <<>>]
    /\ detected_usernames' = [detected_usernames EXCEPT ![t] = {}]
    /\ check' = [check EXCEPT ![t] = 0]
    /\ elements' = [elements EXCEPT ![t] = EmptyCapture]
    /\ video_data' = [video_data EXCEPT ![t] = <<>>]
    /\ new_usernames' = [new_usernames EXCEPT ![t] = {}]
    /\ stop_requested' = stop_requested \ {t}

\* handlers that swallow the exception: nothing is logged
Caught_Silent(t, message) ==
    /\ UNCHANGED log_output
    /\ pc' = [pc EXCEPT ![t] = "failed"]
    /\ browser' = [browser EXCEPT ![t] = "closed"]
    /\ Return(t)

\* the handlers of run_scraper's try, and the end of its with block, which
\* stops Playwright and with it the browser
Caught(t, message) ==
    /\ log_output' = Logged(log_output, "ERROR", message, <<>>)
    /\ pc' = [pc EXCEPT ![t] = "failed"]
    /\ browser' = [browser EXCEPT ![t] = "closed"]
    /\ Return(t)

\* lines 182-186: the cookie list and the empty table; an IndexError here is
\* outside the try and ends the thread
ParseCookies(t) ==
    /\ pc[t] = "parse"
    /\ LET r == ParseCookie(cookie[t])
       IN  IF r.raised
           THEN /\ pc' = [pc EXCEPT ![t] = "crashed"]
                /\ Return(t)
           ELSE /\ pc' = [pc EXCEPT ![t] = "launch"]
                /\ cookies' = [cookies EXCEPT ![t] = r.cookies]
                /\ video_records' = [video_records EXCEPT ![t] = <<>>]
                /\ UNCHANGED <<cookie, detected_usernames, check, cycle_locals,
                               stop_requested>>
    /\ UNCHANGED <<gui, browser, log_output, xlsx, cycles>>

\* lines 188-199: the browser, the context, the page, the cookies, the goto.
\* check_logged_in_username (lines 198-199) catches what it raises and writes
\* only logged_in_message_shown and the log, which nothing else reads: it is
\* left out
Launch(t) ==
    /\ pc[t] = "launch"
    /\ \/ /\ browser' = [browser EXCEPT ![t] = "open"]
          /\ pc' = [pc EXCEPT ![t] = "wait"]
          /\ UNCHANGED log_output
          /\ UNCHANGED <<locals_but_browser, stop_requested>>
       \/ Caught(t, "Error: e")
    /\ UNCHANGED <<gui, xlsx, cycles>>

\* lines 203-205: the wait for the feed marker, then the seen set and the
\* filter setting
WaitForFeed(t) ==
    /\ pc[t] = "wait"
    /\ \/ /\ pc' = [pc EXCEPT ![t] = "loop"]
          /\ detected_usernames' = [detected_usernames EXCEPT ![t] = {}]
          /\ check' = [check EXCEPT ![t] = check_variable]
          /\ UNCHANGED <<browser, log_output, cookie, cookies, video_records,
                         cycle_locals, stop_requested>>
       \/ Caught(t, "Timeout reached while waiting for elements on TikTok.")
    /\ UNCHANGED <<gui, xlsx, cycles>>

\* line 207 with the flag set, lines 270-271
LoopExit(t) ==
    /\ pc[t] = "loop"
    /\ stop_flag
    /\ browser' = [browser EXCEPT ![t] = "closed"]
    /\ log_output' = Logged(log_output, "INFO", "Scraping stopped.", <<>>)
    /\ pc' = [pc EXCEPT ![t] = "stopped"]
    /\ Return(t)
    /\ UNCHANGED <<gui, xlsx, cycles>>

\* line 207 with the flag clear, line 208: a cycle begins
LoopEnter(t) ==
    /\ pc[t] = "loop"
    /\ ~stop_flag
    /\ cycles < MaxCycles
    /\ cycles' = cycles + 1
    /\ log_output' = Logged(log_output, "INFO", "Detecting video information...", <<>>)
    /\ pc' = [pc EXCEPT ![t] = "capture"]
    /\ UNCHANGED <<gui, locals, xlsx, stop_requested>>

\* lines 209-216 on one capture out of S: the eight lists
QueryFrom(t, S) ==
    /\ pc[t] = "capture"
    /\ \E cap \in S : elements' = [elements EXCEPT ![t] = cap]
    /\ pc' = [pc EXCEPT ![t] = "extract"]
    /\ UNCHANGED <<gui, run_locals, video_data, new_usernames, log_output,
                   xlsx, cycles, stop_requested>>

Query(t) == QueryFrom(t, Feed)

\* lines 217-240: video_data, or the IndexError of a date text
ExtractRecords(t) ==
    /\ pc[t] = "extract"
    /\ LET r == Extract(elements[t], check[t])
       IN  IF r.raised
           THEN Caught(t, "Error: list index out of range")
           ELSE /\ video_data' = [video_data EXCEPT ![t] = r.video_data]
                /\ pc' = [pc EXCEPT ![t] = "dedup"]
                /\ UNCHANGED <<run_locals, elements, new_usernames,
                               log_output, stop_requested>>
    /\ UNCHANGED <<gui, xlsx, cycles>>

\* set(video_data.keys())
Keys(d) == {d[j].username : j \in 1..Len(d)}

\* video_data[username]
Lookup(d, username) == d[CHOOSE j \in 1..Len(d) : d[j].username = username]

\* a delta that does not subtract the seen set
NewUsernames_NoSeen(d, detected) == Keys(d)

\* line 242
NewUsernames(d, detected) == Keys(d) \ detected

\* the orders in which a for loop may visit a set of str: the order of the
\* hash table, which the source does not fix
IterationOrders(S) ==
    {o \in [1..Cardinality(S) -> S] : \A i, j \in 1..Cardinality(S) :
                                           i # j => o[i] # o[j]}

\* line 247-248, one record
Notice(data) ==
    Entry("INFO", "[LOG]", <<data.username, data.upload_date, data.description>>)

\* lines 242-259: the delta, the notices and the rows in the order of the for
\* loop over the set, the seen set
Dedup(t) ==
    /\ pc[t] = "dedup"
    /\ new_usernames' = [new_usernames EXCEPT ![t] =
                            NewUsernames(video_data[t], detected_usernames[t])]
    /\ IF new_usernames'[t] = {}
       THEN /\ pc' = [pc EXCEPT ![t] = "pace"]
            /\ UNCHANGED <<log_output, video_records, detected_usernames>>
       ELSE /\ \E o \in IterationOrders(new_usernames'[t]) :
                 /\ log_output' =
                      [i \in 1..Len(o) |-> Notice(Lookup(video_data[t], o[i]))]
                 /\ video_records' = [video_records EXCEPT ![t] = @ \o
                      [i \in 1..Len(o) |-> Row(Lookup(video_data[t], o[i]))]]
            /\ detected_usernames' = [detected_usernames EXCEPT ![t] =
                                          @ \cup new_usernames'[t]]
            /\ pc' = [pc EXCEPT ![t] = "save"]
    /\ UNCHANGED <<gui, cookie, cookies, browser, check, elements, video_data,
                   xlsx, cycles, stop_requested>>

\* pd.DataFrame(video_records).to_excel(OUTPUT_FILE, index=False): the file
\* holds the rows of the table and nothing else
Written(records) == records

\* lines 262-264
Save(t) ==
    /\ pc[t] = "save"
    /\ xlsx' = Written(video_records[t])
    /\ log_output' = Logged(log_output, "INFO", "Data saved to", <<>>)
    /\ pc' = [pc EXCEPT ![t] = "pace"]
    /\ UNCHANGED <<gui, locals, cycles, stop_requested>>

\* lines 266-268: the end of the loop body, after which the lists, video_data
\* and new_usernames of the cycle are not read again
Pace(t) ==
    /\ pc[t] = "pace"
    /\ pc' = [pc EXCEPT ![t] = "loop"]
    /\ elements' = [elements EXCEPT ![t] = EmptyCapture]
    /\ video_data' = [video_data EXCEPT ![t] = <<>>]
    /\ new_usernames' = [new_usernames EXCEPT ![t] = {}]
    /\ UNCHANGED <<gui, run_locals, log_output, xlsx, cycles, stop_requested>>

\* a Playwright call of the cycle (query_selector_all, inner_text, the waits,
\* the key press) raises because the page or the browser is gone: lines 275-276
CycleFault(t) ==
    /\ pc[t] \in {"capture", "extract", "pace"}
    /\ Caught(t, "Error: e")
    /\ UNCHANGED <<gui, xlsx, cycles>>

run_scraper(t) ==
    \/ ParseCookies(t)
    \/ Launch(t)
    \/ WaitForFeed(t)
    \/ LoopExit(t)
    \/ LoopEnter(t)
    \/ Query(t)
    \/ ExtractRecords(t)
    \/ Dedup(t)
    \/ Save(t)
    \/ Pace(t)
    \/ CycleFault(t)

Next ==
    \/ ToggleCheck
    \/ \E text \in CookieTexts : start_scraping(text)
    \/ stop_scraping
    \/ \E t \in Threads : run_scraper(t)

Spec == Init /\ [][Next]_vars

(***************************************************************************)
(* SpecParse: run_scraper's cookie list, over every credential text of up  *)
(* to MaxCookieLen characters.  The initial states are those start_scraping *)
(* leaves when it has spawned the first thread on the text.                *)
(***************************************************************************)
CookieChars == {"k", "v", "=", ";", " "}

SeqsUpTo(S, n) == UNION {[1..k -> S] : k \in 0..n}

AllCookieTexts == SeqsUpTo(CookieChars, MaxCookieLen)

InitParse ==
    /\ stop_flag = FALSE
    /\ start_button = "disabled"
    /\ stop_button = "normal"
    /\ check_variable = 1
    /\ log_output = Logged(<<>>, "INFO", "Starting TikTok scraping...", <<>>)
    /\ scraper_thread = 1
    /\ xlsx = <<>>
    /\ pc = [t \in Threads |-> IF t = 1 THEN "parse" ELSE "unborn"]
    /\ \E text \in AllCookieTexts :
         /\ Strip(text) # <<>>
         /\ cookie = [t \in Threads |-> IF t = 1 THEN Strip(text) ELSE <<>>]
    /\ cookies = [t \in Threads |-> <<>>]
    /\ browser = [t \in Threads |-> "none"]
    /\ video_records = [t \in Threads |-> <<>>]
    /\ detected_usernames = [t \in Threads |-> {}]
    /\ check = [t \in Threads |-> 0]
    /\ elements = [t \in Threads |-> EmptyCapture]
    /\ video_data = [t \in Threads |-> <<>>]
    /\ new_usernames = [t \in Threads |-> {}]
    /\ cycles = 0
    /\ stop_requested = {}

NextParse == \E t \in Threads : ParseCookies(t)

SpecParse == InitParse /\ [][NextParse]_vars

(***************************************************************************)
(* SpecExtract: lines 209-240 of one cycle, over the captures of Feed and  *)
(* every capture whose eight lists have up to MaxItems elements.  The      *)
(* initial states are those of a first thread that has begun its first     *)
(* cycle, with either filter setting.                                      *)
(***************************************************************************)
AllCaptures ==
    [username    : SeqsUpTo({U1, U2}, MaxItems),
     likes       : SeqsUpTo({L10}, MaxItems),
     comments    : SeqsUpTo({<<"3">>}, MaxItems),
     favorites   : SeqsUpTo({<<"4">>}, MaxItems),
     shares      : SeqsUpTo({<<"5">>}, MaxItems),
     upload_date : SeqsUpTo({DATE, NODOT}, MaxItems),
     description : SeqsUpTo({SHOP, NOKW}, MaxItems),
     music_text  : SeqsUpTo({<<"m">>}, MaxItems)]

InitExtract ==
    /\ stop_flag = FALSE
    /\ start_button = "disabled"
    /\ stop_button = "normal"
    /\ check_variable \in {0, 1}
    /\ log_output = Logged(<<>>, "INFO", "Detecting video information...", <<>>)
    /\ scraper_thread = 1
    /\ xlsx = <<>>
    /\ pc = [t \in Threads |-> IF t = 1 THEN "capture" ELSE "unborn"]
    /\ cookie = [t \in Threads |-> IF t = 1 THEN <<"k", "=", "v">> ELSE <<>>]
    /\ cookies = [t \in Threads |->
                     IF t = 1 THEN ParseCookie(<<"k", "=", "v">>).cookies ELSE <<>>]
    /\ browser = [t \in Threads |-> IF t = 1 THEN "open" ELSE "none"]
    /\ video_records = [t \in Threads |-> <<>>]
    /\ detected_usernames = [t \in Threads |-> {}]
    /\ check = [t \in Threads |-> IF t = 1 THEN check_variable ELSE 0]
    /\ elements = [t \in Threads |-> EmptyCapture]
    /\ video_data = [t \in Threads |-> <<>>]
    /\ new_usernames = [t \in Threads |-> {}]
    /\ cycles = 1
    /\ stop_requested = {}

QueryAny(t) == QueryFrom(t, AllCaptures)

NextExtract ==
    \/ \E t \in Threads : Query(t)
    \/ \E t \in Threads : QueryAny(t)
    \/ \E t \in Threads : ExtractRecords(t)

SpecExtract == InitExtract /\ [][NextExtract]_vars

(***************************************************************************)
(* SpecPoll: the program with a polling loop that is not cut after         *)
(* MaxCycles cycles, for what a run does in the long term, on a feed that  *)
(* shows nothing or two items, with the filter setting left as it is.  A   *)
(* thread that can take a step of run_scraper eventually takes one (the    *)
(* scheduler runs every runnable thread, and the waits of lines 266-268    *)
(* end); nothing makes the operator or a Playwright fault act.             *)
(***************************************************************************)
\* the captures the feed shows in SpecPoll
PollFeed == {EmptyCapture, Cap(<<U1, U2>>, <<SHOP, SHOP>>, <<DATE, DATE>>, <<L10>>)}

\* line 207 with the flag clear, line 208, with no count of the cycles
LoopEnterUncounted(t) ==
    /\ pc[t] = "loop"
    /\ ~stop_flag
    /\ log_output' = Logged(log_output, "INFO", "Detecting video information...", <<>>)
    /\ pc' = [pc EXCEPT ![t] = "capture"]
    /\ UNCHANGED <<gui, locals, xlsx, cycles, stop_requested>>

run_scraper_poll(t) ==
    \/ ParseCookies(t)
    \/ Launch(t)
    \/ WaitForFeed(t)
    \/ LoopExit(t)
    \/ LoopEnterUncounted(t)
    \/ QueryFrom(t, PollFeed)
    \/ ExtractRecords(t)
    \/ Dedup(t)
    \/ Save(t)
    \/ Pace(t)
    \/ CycleFault(t)

NextPoll ==
    \/ \E text \in CookieTexts : start_scraping(text)
    \/ stop_scraping
    \/ \E t \in Threads : run_scraper_poll(t)

SpecPoll ==
    Init /\ [][NextPoll]_vars /\ \A t \in Threads : WF_vars(run_scraper_poll(t))

(***************************************************************************)
(* Properties.                                                             *)
(***************************************************************************)
Rows(s) == {s[i] : i \in 1..Len(s)}

Uploaders(s) == {s[i].Uploader : i \in 1..Len(s)}

\* C1: every row that is in the dataset file is still in it after every
\* later write, also when the write is that of a run started after a stop.
C1_RowsNeverLost == [][Rows(xlsx) \subseteq Rows(xlsx')]_vars

\* C2: no two polling cycles execute at the same time: at most one thread is
\* in the body of the polling loop.
C2_NoConcurrentCycles == Cardinality({t \in Threads : InCycle(t)}) <= 1

\* C3: within one run an identity is appended to the accumulated table at
\* most once, and so the file never holds an identity twice.
C3_IdentityAtMostOnce ==
    /\ \A t \in Threads :
         Cardinality(Uploaders(video_records[t])) = Len(video_records[t])
    /\ Cardinality(Uploaders(xlsx)) = Len(xlsx)

\* a run whose cycle captured an identity it had emitted in an earlier cycle
\* together with a new one, and has appended only the new one
C3_Witness ==
    \E t \in Threads :
        /\ pc[t] = "save"
        /\ new_usernames[t] # {}
        /\ Keys(video_data[t]) \ new_usernames[t] # {}
        /\ Len(video_records[t]) = 2

\* C4: once stop_scraping has been called while a run is alive, that run
\* begins no further cycle, whatever calls follow.
C4_NoCycleAfterStop ==
    [][\A t \in stop_requested : ~(pc[t] = "loop" /\ pc'[t] = "capture")]_vars

\* the rows of the runs whose latest cycle is complete
CompletedRowsInFile ==
    \A t \in Threads :
        pc[t] \in {"pace", "loop"} => Rows(video_records[t]) \subseteq Rows(xlsx)

\* C5: stop_scraping during a cycle only sets the flag (and the buttons): it
\* changes no thread's position or locals and not the file; a session is
\* closed only when no cycle of its run is in flight; and no record of a
\* completed cycle is missing from the file.
C5_StopDoesNotTruncate ==
    [][/\ (stop_flag' /\ ~stop_flag) => UNCHANGED <<pc, locals, xlsx>>
       /\ \A t \in Threads : browser'[t] = "closed" => ~InCycle(t)'
       /\ CompletedRowsInFile']_vars

\* the rows a Dedup step of thread t appended
Appended(t) ==
    SubSeq(video_records'[t], Len(video_records[t]) + 1, Len(video_records'[t]))

\* the records of video_data whose identity is in S, in extraction order
InOrder(d, S) == SelectSeq(d, LAMBDA data : data.username \in S)

\* C6: the new records of a cycle are notified and appended in the order in
\* which they were extracted.
C6_EmissionInExtractionOrder ==
    [][\A t \in Threads :
         (pc[t] = "dedup" /\ pc'[t] = "save") =>
             LET d == InOrder(video_data[t], new_usernames'[t])
             IN  /\ Appended(t) = [i \in 1..Len(d) |-> Row(d[i])]
                 /\ log_output' = [i \in 1..Len(d) |-> Notice(d[i])]]_vars

\* C7: a thread that ends on a fatal condition has logged an error in the
\* step that ends it, and its session is not left open.
C7_FatalIsLogged ==
    [][\A t \in Threads :
         (Alive(t) /\ pc'[t] \in {"failed", "crashed"}) =>
             /\ log_output' # <<>>
             /\ log_output'[Len(log_output')].level = "ERROR"
             /\ browser'[t] # "open"]_vars

\* elements[i].inner_text() where the list has an element i, else "N/A"
TextOrNA(list, i) == IF i \in DOMAIN list THEN list[i] ELSE NA

\* item i of a capture passes the filter of a run whose setting is c
Passes(cap, c, i) == c = 0 \/ AnyKeyword(TextOrNA(cap.description, i))

\* the text between the first middle dot of a date text and the next one (or
\* the end), trimmed
DatePart(s) ==
    LET p == CHOOSE i \in 1..Len(s) :
                 s[i] = MIDDLE_DOT /\ \A k \in 1..(i - 1) : s[k] # MIDDLE_DOT
        q == IF \E i \in (p + 1)..Len(s) : s[i] = MIDDLE_DOT
             THEN CHOOSE i \in (p + 1)..Len(s) :
                      s[i] = MIDDLE_DOT /\ \A k \in (p + 1)..(i - 1) : s[k] # MIDDLE_DOT
             ELSE Len(s) + 1
    IN  Strip(SubSeq(s, p + 1, q - 1))

HasDot(s) == \E i \in 1..Len(s) : s[i] = MIDDLE_DOT

\* the record of item i as C9 states it: every field the element text or N/A
RecordAsClaimed(cap, i) ==
    [username    |-> cap.username[i],
     likes       |-> TextOrNA(cap.likes, i),
     comments    |-> TextOrNA(cap.comments, i),
     favorites   |-> TextOrNA(cap.favorites, i),
     shares      |-> TextOrNA(cap.shares, i),
     upload_date |-> TextOrNA(cap.upload_date, i),
     description |-> TextOrNA(cap.description, i),
     music_text  |-> TextOrNA(cap.music_text, i)]

\* the record of item i with the upload date as the source computes it
RecordAsBuilt(cap, i) ==
    [RecordAsClaimed(cap, i) EXCEPT !.upload_date =
        IF i \in DOMAIN cap.upload_date THEN DatePart(cap.upload_date[i]) ELSE NA]

\* C9 as stated: a cycle's extraction builds at most len(username list)
\* records, and every field of every record is the element text at the
\* record's index, or "N/A" when the index is out of range for the field's list.
C9_EveryFieldTextOrNA ==
    [][\A t \in Threads :
         (pc[t] = "extract" /\ pc'[t] = "dedup") =>
             /\ Len(video_data'[t]) <= Len(elements[t].username)
             /\ \A j \in 1..Len(video_data'[t]) :
                  \E i \in 1..Len(elements[t].username) :
                      video_data'[t][j] = RecordAsClaimed(elements[t], i)]_vars

\* C9 amended: the extraction raises exactly when an item that passes the
\* filter has a date text in range with no middle dot; otherwise it builds at
\* most len(username list) records, each with every field: the element text
\* at the record's index, or "N/A" when out of range, and for the upload date
\* in range the trimmed second middle-dot segment of the element text.
C9_FieldsOfBuiltRecords ==
    [][\A t \in Threads :
         (pc[t] = "extract" /\ pc'[t] # "extract") =>
             IF \A i \in 1..Len(elements[t].username) :
                    Passes(elements[t], check[t], i)
                        /\ i \in DOMAIN elements[t].upload_date
                    => HasDot(elements[t].upload_date[i])
             THEN /\ pc'[t] = "dedup"
                  /\ Len(video_data'[t]) <= Len(elements[t].username)
                  /\ \A j \in 1..Len(video_data'[t]) :
                       \E i \in 1..Len(elements[t].username) :
                           /\ Passes(elements[t], check[t], i)
                           /\ video_data'[t][j] = RecordAsBuilt(elements[t], i)
             ELSE pc'[t] = "failed"]_vars

\* a record built with a likes list too short for it and a date in range
C9_Witness ==
    \E t \in Threads :
        /\ pc[t] = "dedup"
        /\ \E j \in 1..Len(video_data[t]) :
             /\ video_data[t][j].likes = NA
             /\ video_data[t][j].comments # NA
             /\ video_data[t][j].upload_date = <<"1">>

\* the number of '=' in a text
RECURSIVE CountEq(_)
CountEq(s) ==
    IF s = <<>> THEN 0
    ELSE (IF Head(s) = "=" THEN 1 ELSE 0) + CountEq(Tail(s))

\* the text before the first '=' and the text after it
BeforeEq(s) == SubSeq(s, 1, (CHOOSE i \in 1..Len(s) : s[i] = "=") - 1)
AfterEq(s) == SubSeq(s, (CHOOSE i \in 1..Len(s) : s[i] = "=") + 1, Len(s))

\* C8: a credential whose ';'-separated segments each hold exactly one '='
\* yields one cookie per segment, name and value trimmed; a credential with a
\* segment that holds no '=' or more than one fails and yields no cookies.
C8_ParseContract ==
    [][\A t \in Threads :
         pc[t] = "parse" /\ pc'[t] # "parse" =>
             LET segs == Split(cookie[t], ";")
             IN  IF \A i \in 1..Len(segs) : CountEq(segs[i]) = 1
                 THEN /\ pc'[t] = "launch"
                      /\ Len(cookies'[t]) = Len(segs)
                      /\ \A i \in 1..Len(segs) :
                           /\ cookies'[t][i].name = Strip(BeforeEq(segs[i]))
                           /\ cookies'[t][i].value = Strip(AfterEq(segs[i]))
                 ELSE /\ pc'[t] = "crashed"
                      /\ cookies'[t] = <<>>]_vars

\* C10: a cycle's delta is exactly the captured identities that pass the
\* filter and are not in the seen set, after the cycle they all are in it (the
\* same capture again yields an empty delta), the table gains one row per
\* identity of the delta, a cycle with an empty delta writes no file, and the
\* write of a cycle makes the file gain exactly as many rows as its delta has.
C10_DeltaAndFileGain ==
    [][\A t \in Threads :
         /\ (pc[t] = "dedup" /\ pc'[t] # "dedup") =>
               /\ new_usernames'[t] = Keys(video_data[t]) \ detected_usernames[t]
               /\ Keys(video_data[t]) \subseteq detected_usernames'[t]
               /\ Len(video_records'[t]) =
                      Len(video_records[t]) + Cardinality(new_usernames'[t])
               /\ xlsx' = xlsx
               /\ new_usernames'[t] = {} => pc'[t] = "pace"
         /\ (pc[t] = "save" /\ pc'[t] = "pace") =>
               Len(xlsx') = Len(xlsx) + Cardinality(new_usernames[t])]_vars

\* C11: no run polls forever on a feed whose captures stay empty: a run that
\* is in its polling loop with nothing captured eventually leaves the loop or
\* captures an element.
C11_EmptyFeedEndsRun ==
    \A t \in Threads : []<>~(InLoop(t) /\ elements[t] = EmptyCapture)

\* the identities of the items of a capture that pass the filter of setting c
PassingUsernames(cap, c) ==
    {cap.username[i] : i \in {j \in 1..Len(cap.username) : Passes(cap, c, j)}}

\* C12: the filter runs before dedup: the seen set of a run holds exactly the
\* identities it has appended to its table, a cycle adds to it the identities
\* of the captured items that pass the filter and no other (all of them when
\* filtering is off), every passing identity not yet seen gets a row, and the
\* cycle's write puts the table's rows in the file.
C12_FilterBeforeDedup ==
    [][\A t \in Threads :
         /\ InLoop(t) => detected_usernames[t] = Uploaders(video_records[t])
         /\ (pc[t] = "dedup" /\ pc'[t] \in {"save", "pace"}) =>
               LET passing == PassingUsernames(elements[t], check[t])
               IN  /\ detected_usernames'[t] = detected_usernames[t] \cup passing
                   /\ Uploaders(video_records'[t]) =
                          Uploaders(video_records[t]) \cup passing
                   /\ check[t] = 0 =>
                          \A i \in 1..Len(elements[t].username) :
                              elements[t].username[i] \in detected_usernames'[t]
         /\ (pc[t] = "save" /\ pc'[t] = "pace") =>
               Rows(video_records[t]) \subseteq Rows(xlsx')]_vars

\* a filtering run whose first cycle captured U1 with "Shop" (no keyword) and
\* U2 with "shop", and whose second cycle captured U1 with "shop": U1 is the
\* delta of the second cycle and has its row
C12_Witness ==
    \E t \in Threads :
        /\ pc[t] = "save"
        /\ check[t] = 1
        /\ new_usernames[t] = {U1}
        /\ Len(video_records[t]) = 2
        /\ video_records[t][1].Uploader = U2
        /\ video_records[t][1].Likes = L10
        /\ video_records[t][2].Uploader = U1
        /\ video_records[t][2].Description = SHOP

\* s is a prefix of r
IsPrefix(s, r) == Len(s) <= Len(r) /\ SubSeq(r, 1, Len(s)) = s

\* C13: first seen wins: while a run is in its polling loop no step changes
\* or removes a row of its table, a cycle appends no row for an identity of
\* the seen set whatever the fields captured for it, and the write of a cycle
\* leaves the row the file holds for an identity as it is.
C13_FirstSeenWins ==
    [][\A t \in Threads :
         /\ (InLoop(t) /\ InLoop(t)') =>
               /\ IsPrefix(video_records[t], video_records'[t])
               /\ \A i \in (Len(video_records[t]) + 1)..Len(video_records'[t]) :
                    video_records'[t][i].Uploader \notin detected_usernames[t]
               /\ detected_usernames[t] \subseteq detected_usernames'[t]
         /\ (pc[t] = "save" /\ pc'[t] = "pace") =>
               \A i \in 1..Len(xlsx), j \in 1..Len(xlsx') :
                   xlsx[i].Uploader = xlsx'[j].Uploader => xlsx[i] = xlsx'[j]]_vars

\* C14: a run whose wait for the feed marker times out logs the timeout as an
\* error and ends there with its session closed: it has run no cycle and has
\* no row, it takes no further step, and the file is written only by the
\* write of a cycle.
C14_BootstrapTimeout ==
    [][\A t \in Threads :
         /\ pc[t] = "wait" => video_records[t] = <<>> /\ video_data[t] = <<>>
         /\ (pc[t] = "wait" /\ pc'[t] \notin {"wait", "loop"}) =>
               /\ pc'[t] = "failed"
               /\ log_output' =
                    <<Entry("ERROR",
                            "Timeout reached while waiting for elements on TikTok.",
                            <<>>)>>
               /\ browser'[t] = "closed"
               /\ xlsx' = xlsx
         /\ pc[t] = "failed" => pc'[t] = "failed" /\ video_records'[t] = <<>>
         /\ xlsx' # xlsx => \E u \in Threads : pc[u] = "save" /\ pc'[u] = "pace"]_vars

\* a run that has just ended on the timeout of its bootstrap wait
C14_Witness ==
    \E t \in Threads :
        /\ pc[t] = "failed"
        /\ browser[t] = "closed"
        /\ log_output =
             <<Entry("ERROR",
                     "Timeout reached while waiting for elements on TikTok.", <<>>)>>

\* an item of the capture passes the filter of setting c and has a date
\* element whose text has no middle dot
DateRaises(cap, c) ==
    \E i \in 1..Len(cap.username) :
        /\ Passes(cap, c, i)
        /\ i \in DOMAIN cap.upload_date
        /\ ~HasDot(cap.upload_date[i])

\* C15: when the extraction of a cycle raises, the run ends in that step with
\* one error entry in the log and its session closed: no record of the cycle
\* is notified, the table and the seen set gain nothing, the file is not
\* written, and the run takes no further step.
C15_FailedExtractionEmitsNothing ==
    [][\A t \in Threads :
         /\ (pc[t] = "extract" /\ pc'[t] # "extract"
                /\ DateRaises(elements[t], check[t])) =>
               /\ pc'[t] = "failed"
               /\ browser'[t] = "closed"
               /\ Len(log_output') = 1
               /\ log_output'[1].level = "ERROR"
               /\ log_output'[1].args = <<>>
               /\ xlsx' = xlsx
               /\ Rows(video_records'[t]) \subseteq Rows(video_records[t])
               /\ detected_usernames'[t] \subseteq detected_usernames[t]
         /\ pc[t] = "failed" =>
               /\ pc'[t] = "failed"
               /\ video_records'[t] = video_records[t]
               /\ detected_usernames'[t] = detected_usernames[t]]_vars

\* a run that has just ended on the IndexError of a date text, in a capture
\* whose first item (U1) was extracted before the item that raised; the file
\* holds the row of an earlier cycle and none for U1
C15_Witness ==
    \E t \in Threads :
        /\ pc[t] = "failed"
        /\ log_output = <<Entry("ERROR", "Error: list index out of range", <<>>)>>
        /\ Uploaders(xlsx) = {U2}

\* C16: a run reads the filter setting once, when its bootstrap wait has
\* succeeded and before its first cycle; while it is in its polling loop no
\* step changes the value it read, a click on the checkbox included, and each
\* cycle keeps exactly the items that pass the filter of that value.
C16_FilterReadOnce ==
    [][\A t \in Threads :
         /\ (pc[t] = "wait" /\ pc'[t] = "loop") => check'[t] = check_variable
         /\ (InLoop(t) /\ InLoop(t)') => check'[t] = check[t]
         /\ (pc[t] = "extract" /\ pc'[t] = "dedup") =>
               Keys(video_data'[t]) = PassingUsernames(elements[t], check[t])]_vars

\* a run that has extracted a cycle after the checkbox was clicked: it kept
\* the items of the setting it read, which are not those of the checkbox
C16_Witness ==
    \E t \in Threads :
        /\ pc[t] = "dedup"
        /\ check[t] # check_variable
        /\ Keys(video_data[t]) = PassingUsernames(elements[t], check[t])
        /\ Keys(video_data[t]) # PassingUsernames(elements[t], check_variable)

\* the empty text and the texts of up to MaxCookieLen whitespace characters
BlankTexts == SeqsUpTo(Whitespace, MaxCookieLen)

\* the log entry of a refused start
CookieEmptyError == <<Entry("ERROR", "Cookie cannot be empty", <<>>)>>

\* C17: start_scraping on an empty or whitespace-only text logs the error and
\* changes nothing else: not the flag, the buttons, the checkbox, the threads,
\* their locals or the file; the step that logs the error changes nothing
\* else; and a thread is spawned only on a text that is not blank.
C17_EmptyCookieRefused ==
    [][/\ \A text \in BlankTexts :
            start_scraping(text) =>
                /\ log_output' = CookieEmptyError
                /\ UNCHANGED <<gui, locals, pc, xlsx>>
       /\ (log_output' = CookieEmptyError /\ log_output # CookieEmptyError) =>
              UNCHANGED <<gui, locals, pc, xlsx>>
       /\ scraper_thread' # scraper_thread =>
              /\ cookie'[scraper_thread'] # <<>>
              /\ cookie'[scraper_thread'] \notin BlankTexts]_vars

\* a start refused after a stop, while the stopped run is still alive: the
\* flag is still set and the buttons are as stop_scraping left them
C17_Witness ==
    /\ log_output = CookieEmptyError
    /\ stop_flag
    /\ start_button = "normal"
    /\ stop_button = "disabled"
    /\ \E t \in Threads : Alive(t)

=============================================================================
